---- MODULE Spec2Model ----
(***************************************************************************)
(* Model of monitor_intake_forms.py: a watcher that polls the "forms"      *)
(* collection, de-duplicates by identifier and relays each new document    *)
(* by email.                                                               *)
(*                                                                         *)
(* Spec      the control thread running monitor_new_submission while the   *)
(*           upstream backend inserts documents.                           *)
(* FairSpec  Spec with the control thread scheduled fairly.                *)
(* FnSpec    send_email and process_form applied to enumerated arguments.  *)
(***************************************************************************)
EXTENDS Integers, Sequences, FiniteSets, TLC

VARIABLES
    collection,       \* db["forms"]: the set of documents stored
    inserted_max,     \* ids inserted while greater than every stored id
    pc,               \* position of the control thread
    last_checked_id,  \* line 192
    seen_ids,         \* line 191
    new_forms,        \* the part of the cursor not yet iterated
    batch,            \* what the last successful query returned
    query_arg,        \* [last, ids]: its argument and the ids stored then
    sending,          \* the arguments of the running send_email call
    notified,         \* per id, how many times send_email was invoked
    send_failed,      \* ids whose send_email raised
    last_error,       \* what the except clause of line 216 caught last
    run,              \* how many times the process was started again
    sent_before,      \* ids handed to send_email in earlier runs
    call              \* FnSpec: the last function application

vars == <<collection, inserted_max, pc, last_checked_id, seen_ids, new_forms,
          batch, query_arg, sending, notified, send_failed, last_error, run,
          sent_before, call>>

loop_vars == <<pc, last_checked_id, seen_ids, new_forms, batch, query_arg,
               sending, notified, send_failed, last_error, run, sent_before>>

-----------------------------------------------------------------------------
(* Bounds *)

MaxId == 2

MaxNotify == 2

MaxRestarts == 1

Ids == 0..MaxId

-----------------------------------------------------------------------------
(* Python values *)

\* None, for an identifier (line 192)
None == -1

\* dict.get(key) of a missing key, for the payload and for a string
NoData == -1

NoStr == "<None>"

\* bool(x) of an identifier: None and 0 are falsy
Truthy(x) == x # None /\ x # 0

\* bool(x) of a bytes payload, given by its length
TruthyData(n) == n # NoData /\ n # 0

\* bool(x) of a string
TruthyStr(s) == s # NoStr /\ s # ""

\* str(x) of an integer identifier
Str(i) == <<"0", "1", "2", "3", "4", "5", "6", "7", "8", "9">>[i + 1]

-----------------------------------------------------------------------------
(* Constants for file validation *)

ALLOWED_MIME_TYPES == {"application/pdf", "image/jpeg", "image/png", "image/gif"}

MAX_FILE_SIZE == 5 * 1024 * 1024

\* the extension mimetypes.guess_type looks up
Suffix(file_name) ==
    CASE file_name = "photo.png"   -> ".png"
      [] file_name = "scan.pdf"    -> ".pdf"
      [] file_name = "pic.jpg"     -> ".jpg"
      [] file_name = "anim.gif"    -> ".gif"
      [] file_name = "malware.exe" -> ".exe"
      [] file_name = "notes.txt"   -> ".txt"
      [] OTHER                     -> ""

\* mimetypes.guess_type(file_name)[0]
GuessType(file_name) ==
    LET ext == Suffix(file_name) IN
    CASE ext = ".png" -> "image/png"
      [] ext = ".pdf" -> "application/pdf"
      [] ext = ".jpg" -> "image/jpeg"
      [] ext = ".gif" -> "image/gif"
      [] ext = ".exe" -> "application/x-msdos-program"
      [] ext = ".txt" -> "text/plain"
      [] OTHER        -> NoStr

-----------------------------------------------------------------------------
(* handle_exception: logs, then the bare raise re-raises the exception     *)
(* being handled, so the call never returns.                               *)

handle_exception == "raise"

-----------------------------------------------------------------------------
(* send_email(text_data, file_data, file_name), with the outcome of the    *)
(* SMTP session (lines 108-111) as a parameter.  file_data is the length   *)
(* of the payload.  The result says what was handed to                     *)
(* server.send_message and how the call ended.                             *)

NoMessage == [submitted |-> FALSE, body |-> "", attachments |-> <<>>]

\* lines 88-105: what becomes of the attachment
\*   "none"      nothing to attach (line 88 is false)
\*   "oversize"  line 91: the attachment is left out
\*   "return"    line 99: send_email returns before the SMTP session
\*   "attach"    lines 101-105
\* line 99 without the return: the type check only leaves the attachment out
check_attachment_type_drops(file_data, file_name) ==
    IF TruthyData(file_data) /\ TruthyStr(file_name)
    THEN IF file_data > MAX_FILE_SIZE
         THEN "oversize"
         ELSE IF GuessType(file_name) \notin ALLOWED_MIME_TYPES
              THEN "oversize"
              ELSE "attach"
    ELSE "none"

\* line 90 with >= for >
check_attachment_size_ge(file_data, file_name) ==
    IF TruthyData(file_data) /\ TruthyStr(file_name)
    THEN IF file_data >= MAX_FILE_SIZE
         THEN "oversize"
         ELSE IF GuessType(file_name) \notin ALLOWED_MIME_TYPES
              THEN "return"
              ELSE "attach"
    ELSE "none"

\* lines 90 and 97 exchanged: the type is checked before the size
check_attachment_type_first(file_data, file_name) ==
    IF TruthyData(file_data) /\ TruthyStr(file_name)
    THEN IF GuessType(file_name) \notin ALLOWED_MIME_TYPES
         THEN "return"
         ELSE IF file_data > MAX_FILE_SIZE
              THEN "oversize"
              ELSE "attach"
    ELSE "none"

check_attachment(file_data, file_name) ==
    IF TruthyData(file_data) /\ TruthyStr(file_name)
    THEN IF file_data > MAX_FILE_SIZE
         THEN "oversize"
         ELSE IF GuessType(file_name) \notin ALLOWED_MIME_TYPES
              THEN "return"
              ELSE "attach"
    ELSE "none"

\* message: what reaches the SMTP session of line 108 (NoMessage when the
\*          call returns before it)
\* end:     "return", or "raise" when handle_exception re-raises
send_email(text_data, file_data, file_name, smtp_ok) ==
    LET body == text_data.name
        attach == check_attachment(file_data, file_name)
        msg == [submitted |-> TRUE, body |-> body,
                attachments |-> IF attach = "attach"
                                THEN <<[filename |-> file_name, size |-> file_data]>>
                                ELSE <<>>]
    IN  IF attach = "return"
        THEN [message |-> NoMessage, delivered |-> FALSE, end |-> "return"]
        ELSE IF smtp_ok
             THEN [message |-> msg, delivered |-> TRUE, end |-> "return"]
             ELSE [message |-> msg, delivered |-> FALSE, end |-> handle_exception]

-----------------------------------------------------------------------------
(* fetch_new_forms(collection, last_check_id) *)

\* sort("_id", -1): descending
RECURSIVE SortById_desc(_)
SortById_desc(docs) ==
    IF docs = {} THEN <<>>
    ELSE LET first == CHOOSE d \in docs : \A e \in docs : d._id >= e._id
         IN  <<first>> \o SortById_desc(docs \ {first})

\* sort("_id", 1)
RECURSIVE SortById(_)
SortById(docs) ==
    IF docs = {} THEN <<>>
    ELSE LET first == CHOOSE d \in docs : \A e \in docs : d._id <= e._id
         IN  <<first>> \o SortById(docs \ {first})

\* line 144 without the filter
fetch_new_forms_unfiltered(coll, last_check_id) == SortById(coll)

\* line 144 with $gte for $gt
fetch_new_forms_gte(coll, last_check_id) ==
    LET found == IF Truthy(last_check_id)
                 THEN {d \in coll : d._id >= last_check_id}
                 ELSE coll
    IN  SortById(found)

fetch_new_forms(coll, last_check_id) ==
    LET found == IF Truthy(last_check_id)
                 THEN {d \in coll : d._id > last_check_id}
                 ELSE coll
    IN  SortById(found)

-----------------------------------------------------------------------------
(* process_form(form) *)

process_form(form) ==
    LET customer_info == [name |-> IF form.name = NoStr THEN "N/A" ELSE form.name]
        uploaded_file == form.uploadedFile
        has_dict == uploaded_file.kind = "dict"
        file_data == IF has_dict THEN uploaded_file.data ELSE NoData
        file_name == IF has_dict THEN uploaded_file.filename ELSE NoStr
        file_attachment == IF has_dict /\ TruthyData(file_data) /\ TruthyStr(file_name)
                           THEN file_data ELSE NoData
    IN  [customer_info |-> customer_info,
         file_attachment |-> file_attachment,
         file_name |-> file_name]

-----------------------------------------------------------------------------
(* Documents *)

\* form["uploadedFile"]: the key is missing, holds a falsy value, or holds
\* a sub-document whose "data" and "filename" may each be missing
NoFile == [kind |-> "missing", data |-> NoData, filename |-> NoStr]

FalsyFile == [kind |-> "falsy", data |-> NoData, filename |-> NoStr]

File(data, filename) == [kind |-> "dict", data |-> data, filename |-> filename]

\* what the upstream backend inserts while the loop runs
LoopFiles == {NoFile, File(1, "photo.png"), File(1, "malware.exe")}

LoopNames == {"Ann", NoStr}

Docs(i) == {[_id |-> i, name |-> n, uploadedFile |-> f] : n \in LoopNames, f \in LoopFiles}

\* arguments of the function applications of FnSpec
FileDatas == {NoData, 0, 1, MAX_FILE_SIZE - 1, MAX_FILE_SIZE, MAX_FILE_SIZE + 1}

FileNames == {NoStr, "", "photo.png", "scan.pdf", "pic.jpg", "anim.gif",
              "malware.exe", "notes.txt", "README"}

FnFiles == {NoFile, FalsyFile} \cup {File(d, f) : d \in FileDatas, f \in FileNames}

FnForms == {[_id |-> 1, name |-> n, uploadedFile |-> f] : n \in LoopNames, f \in FnFiles}

NoCall == [fn |-> "none"]

NoForm == [_id |-> None, name |-> NoStr, uploadedFile |-> NoFile]

NoSend == [form |-> NoForm, file_attachment |-> NoData, file_name |-> NoStr]

-----------------------------------------------------------------------------
(* State after line 194 *)

\* the dedup set kept across a start of the process
seen_at_start_kept(previous) == previous

\* line 191: the dedup set at a start of the process, whatever it held before
seen_at_start(previous) == {}

Init ==
    /\ collection = {}
    /\ inserted_max = {}
    /\ pc = "poll"
    /\ last_checked_id = None
    /\ seen_ids = seen_at_start({})
    /\ new_forms = <<>>
    /\ batch = <<>>
    /\ query_arg = [last |-> None, ids |-> {}]
    /\ sending = NoSend
    /\ notified = [i \in Ids |-> 0]
    /\ send_failed = {}
    /\ last_error = "none"
    /\ run = 0
    /\ sent_before = {}
    /\ call = NoCall

-----------------------------------------------------------------------------
(* The upstream backend *)

Insert ==
    \E i \in Ids : \E doc \in Docs(i) :
        /\ \A d \in collection : d._id # i
        /\ collection' = collection \cup {doc}
        /\ inserted_max' = IF \A d \in collection : d._id < i
                           THEN inserted_max \cup {i} ELSE inserted_max
        /\ UNCHANGED <<loop_vars, call>>

-----------------------------------------------------------------------------
(* monitor_new_submission *)

\* line 206 without the membership test
already_seen_never(form_id, seen) == FALSE

\* line 206
already_seen(form_id, seen) == form_id \in seen

\* line 203 moved after the send: the mark is left as it was at dispatch
advance_mark_late(last, form) == last

\* line 203 moved before line 201: the mark moves although form["name"] raises
advance_mark_before_name(last, form) == form._id

\* lines 201-203: last_checked_id after a document is pulled; form["name"]
\* raises KeyError before the assignment of line 203
advance_mark(last, form) == IF form.name = NoStr THEN last ELSE form._id

\* line 198 and the first read of the cursor: the query succeeds
Poll ==
    /\ pc = "poll"
    /\ new_forms' = fetch_new_forms(collection, last_checked_id)
    /\ batch' = new_forms'
    /\ query_arg' = [last |-> last_checked_id, ids |-> {d._id : d \in collection}]
    /\ pc' = "iter"
    /\ UNCHANGED <<collection, inserted_max, last_checked_id, seen_ids, sending,
                   notified, send_failed, last_error, run, sent_before, call>>

\* line 198 and the first read of the cursor: the query raises
QueryFail ==
    /\ pc = "poll"
    /\ pc' = "except"
    /\ last_error' = "query"
    /\ new_forms' = <<>>
    /\ UNCHANGED <<collection, inserted_max, last_checked_id, seen_ids, batch,
                   query_arg, sending, notified, send_failed, run, sent_before,
                   call>>

\* lines 200-214, up to the call of send_email
NextForm ==
    /\ pc = "iter"
    /\ new_forms # <<>>
    /\ LET form == Head(new_forms) IN
       IF form.name = NoStr
       THEN \* line 201: KeyError
            /\ pc' = "except"
            /\ last_error' = "KeyError"
            /\ new_forms' = <<>>
            /\ last_checked_id' = advance_mark(last_checked_id, form)
            /\ UNCHANGED <<seen_ids, sending, notified>>
       ELSE /\ last_checked_id' = advance_mark(last_checked_id, form)
            /\ new_forms' = Tail(new_forms)
            /\ UNCHANGED last_error
            /\ IF already_seen(Str(form._id), seen_ids)
               THEN \* line 207
                    /\ pc' = "iter"
                    /\ UNCHANGED <<seen_ids, sending, notified>>
               ELSE LET p == process_form(form) IN
                    /\ seen_ids' = seen_ids \cup {Str(form._id)}
                    /\ sending' = [form |-> form,
                                   file_attachment |-> p.file_attachment,
                                   file_name |-> p.file_name]
                    /\ notified' = [notified EXCEPT ![form._id] =
                                       IF @ < MaxNotify THEN @ + 1 ELSE @]
                    /\ pc' = "send"
    /\ UNCHANGED <<collection, inserted_max, batch, query_arg, send_failed, run,
                   sent_before, call>>

\* line 214: send_email runs on the control thread and ends
SendEnd ==
    /\ pc = "send"
    /\ \E smtp_ok \in BOOLEAN :
         LET r == send_email(process_form(sending.form).customer_info,
                             sending.file_attachment, sending.file_name, smtp_ok)
         IN  IF r.end = "return"
             THEN /\ pc' = "iter"
                  /\ UNCHANGED <<send_failed, last_error, new_forms>>
             ELSE /\ pc' = "except"
                  /\ send_failed' = send_failed \cup {sending.form._id}
                  /\ last_error' = "send"
                  /\ new_forms' = <<>>
    /\ sending' = NoSend
    /\ UNCHANGED <<collection, inserted_max, last_checked_id, seen_ids, batch,
                   query_arg, notified, run, sent_before, call>>

\* line 215: the cursor is exhausted
EndCycle ==
    /\ pc = "iter"
    /\ new_forms = <<>>
    /\ pc' = "sleep"
    /\ UNCHANGED <<collection, inserted_max, last_checked_id, seen_ids, new_forms,
                   batch, query_arg, sending, notified, send_failed, last_error, run,
                   sent_before, call>>

\* line 215: time.sleep(POLLING_INTERVAL) returns
Wake ==
    /\ pc = "sleep"
    /\ pc' = "poll"
    /\ UNCHANGED <<collection, inserted_max, last_checked_id, seen_ids, new_forms,
                   batch, query_arg, sending, notified, send_failed, last_error, run,
                   sent_before, call>>

\* lines 216-217: handle_exception re-raises out of the except clause, out of
\* the while loop and out of monitor_new_submission; line 218 is not reached
Except ==
    /\ pc = "except"
    /\ pc' = IF handle_exception = "raise" THEN "exited" ELSE "recover"
    /\ UNCHANGED <<collection, inserted_max, last_checked_id, seen_ids, new_forms,
                   batch, query_arg, sending, notified, send_failed, last_error, run,
                   sent_before, call>>

\* lines 221-223 run again: the process is killed or has exited, and is
\* started anew; lines 191-192 run again, the collection stays
Restart ==
    /\ run < MaxRestarts
    /\ run' = run + 1
    /\ sent_before' = sent_before \cup {i \in Ids : notified[i] >= 1}
    /\ pc' = "poll"
    /\ last_checked_id' = None
    /\ seen_ids' = seen_at_start(seen_ids)
    /\ new_forms' = <<>>
    /\ batch' = <<>>
    /\ query_arg' = [last |-> None, ids |-> {}]
    /\ sending' = NoSend
    /\ notified' = [i \in Ids |-> 0]
    /\ send_failed' = {}
    /\ last_error' = "none"
    /\ UNCHANGED <<collection, inserted_max, call>>

Loop == Poll \/ QueryFail \/ NextForm \/ SendEnd \/ EndCycle \/ Wake \/ Except

Next ==
    Insert \/ Poll \/ QueryFail \/ NextForm \/ SendEnd \/ EndCycle \/ Wake \/ Except
        \/ Restart

Spec == Init /\ [][Next]_vars

FairSpec == Spec /\ WF_vars(Loop)

-----------------------------------------------------------------------------
(* Function applications *)

CallSendEmail ==
    \E d \in FileDatas, f \in FileNames, smtp_ok \in BOOLEAN :
        /\ call' = [fn |-> "send_email", file_data |-> d, file_name |-> f,
                    smtp_ok |-> smtp_ok,
                    result |-> send_email([name |-> "Ann"], d, f, smtp_ok)]
        /\ UNCHANGED <<collection, inserted_max, loop_vars>>

CallProcessForm ==
    \E form \in FnForms :
        /\ call' = [fn |-> "process_form", form |-> form, result |-> process_form(form)]
        /\ UNCHANGED <<collection, inserted_max, loop_vars>>

FnNext == CallSendEmail \/ CallProcessForm

FnSpec == Init /\ [][FnNext]_vars

-----------------------------------------------------------------------------
(* Properties *)

\* the ids of the documents of a sequence
IdsOf(forms) == {forms[k]._id : k \in 1..Len(forms)}

\* the documents of the batch already pulled from the cursor
Pulled == Len(batch) - Len(new_forms)

\* every document of the batch has the "name" field of the data model
BatchNamed == \A k \in 1..Len(batch) : batch[k].name # NoStr

\* the poll cycle is over: the loop sleeps, or an error ended the iteration
CycleOver == pc \in {"sleep", "except", "exited"}

\* the ids whose send_email call is running
InFlight == IF pc = "send" THEN {sending.form._id} ELSE {}

\* C1: in one run send_email is invoked at most once per record identifier,
\* also for a record whose send raised.
C1_AtMostOnce == \A i \in Ids : notified[i] <= 1

\* C1 witness: a later query returned a document again that had been handed to
\* send_email, and the loop has pulled it from the cursor without a second call.
C1_Witness ==
    /\ query_arg.last # None
    /\ pc = "iter"
    /\ \E k \in 1..Pulled :
          /\ batch[k]._id <= query_arg.last
          /\ notified[batch[k]._id] = 1

\* C2 (as claimed): when no query fails and every stored document has the
\* "name" field of the data model, every document inserted with an id greater
\* than all stored ones is eventually handed to send_email.
C2_Claim ==
    ([](last_error # "query" /\ \A d \in collection : d.name # NoStr)) =>
        \A i \in Ids : [](i \in inserted_max => <>(notified[i] >= 1))

\* C3 (as claimed): when a poll cycle over a batch of named documents is over,
\* last_checked_id is the id of the last document of the batch, whether the
\* sends succeeded or failed.
C3_Claim ==
    (CycleOver /\ batch # <<>> /\ BatchNamed)
        => last_checked_id = batch[Len(batch)]._id

\* C4 (as claimed): after the send of a document of the batch failed, the cycle
\* still hands every later document of the batch to send_email, and
\* last_checked_id is not below the failed document.
C4_Claim ==
    \A i \in send_failed :
        (CycleOver /\ BatchNamed)
            => /\ last_checked_id >= i
               /\ \A k \in 1..Len(batch) : batch[k]._id > i => notified[batch[k]._id] >= 1

\* C5 (as claimed): after an error reached the handler of line 216, the loop
\* polls again with the high-water mark as it stood at the error (unless the
\* process is started anew first).
C5_Claim ==
    \A h \in Ids \cup {None} : \A n \in 0..MaxRestarts :
        (pc = "except" /\ last_checked_id = h /\ run = n)
            ~> ((pc = "poll" /\ last_checked_id = h) \/ run # n)

\* C6 (as claimed): while a send is in flight the control thread does not wait
\* for it: it can pull the next document or end the cycle.
C6_Claim == InFlight # {} => ENABLED (NextForm \/ EndCycle)

\* C7 (as claimed): monitor_new_submission is running in every reachable state.
C7_Claim == pc \in {"poll", "iter", "send", "sleep", "except"}

\* C8: for a non-empty payload within the ceiling whose filename has a type
\* outside the allow-list (or no type), send_email reaches no SMTP session and
\* returns without raising.
C8_TypeRejected ==
    (/\ call.fn = "send_email"
     /\ TruthyData(call.file_data)
     /\ call.file_data <= MAX_FILE_SIZE
     /\ TruthyStr(call.file_name)
     /\ GuessType(call.file_name) \notin ALLOWED_MIME_TYPES)
        => /\ call.result.message = NoMessage
           /\ ~call.result.delivered
           /\ call.result.end = "return"

\* C8 witness: send_email was applied to README (no type) with a payload of
\* exactly the ceiling and submitted nothing.
C8_Witness ==
    /\ call.fn = "send_email"
    /\ call.file_name = "README"
    /\ call.file_data = MAX_FILE_SIZE
    /\ ~call.result.message.submitted

C10_Claim ==
    /\ \A k \in 1..(Len(batch) - 1) : batch[k]._id < batch[k + 1]._id
    /\ IdsOf(batch) = IF query_arg.last = None
                      THEN query_arg.ids
                      ELSE {i \in query_arg.ids : i > query_arg.last}

\* C11 (as claimed): every document a query returns has an id strictly greater
\* than every document pulled from the cursor in earlier cycles of the run
\* (the named documents pulled so far are those of seen_ids).
C11_Claim ==
    [][(pc = "poll" /\ pc' = "iter")
          => \A k \in 1..Len(batch') : \A i \in Ids :
                 Str(i) \in seen_ids => batch'[k]._id > i]_vars

C13_Claim ==
    call.fn = "process_form" =>
        LET f == call.form.uploadedFile
            complete == f.kind = "dict" /\ TruthyData(f.data) /\ TruthyStr(f.filename)
        IN  IF complete
            THEN /\ call.result.file_attachment = f.data
                 /\ call.result.file_name = f.filename
            ELSE /\ ~TruthyData(call.result.file_attachment)
                 /\ ~TruthyStr(call.result.file_name)

C15_MarkBeforeSend ==
    [][/\ pc' = "send" => (last_checked_id' # None
                             /\ last_checked_id' >= sending'.form._id)
       /\ last_checked_id' # last_checked_id
             => ((pc = "iter" /\ new_forms # <<>>) \/ run' # run)]_vars

\* C15 witness: a send is running in the middle of a batch and the mark is
\* already the id of the document being sent.
C15_Witness ==
    /\ pc = "send"
    /\ new_forms # <<>>
    /\ last_checked_id = sending.form._id
    /\ last_checked_id > 0

C19_KeyErrorNoChange ==
    [][(/\ pc = "iter" /\ new_forms # <<>> /\ Head(new_forms).name = NoStr
        /\ new_forms' # new_forms /\ run' = run)
          => /\ last_error' = "KeyError"
             /\ last_checked_id' = last_checked_id
             /\ seen_ids' = seen_ids
             /\ notified' = notified
             /\ pc' # "send"
             /\ LET again == fetch_new_forms(collection', last_checked_id')
                IN  \E k \in 1..Len(again) : again[k] = Head(new_forms)]_vars

\* C19 witness: after named documents were pulled, a document without "name"
\* raised KeyError; the mark is below its id and a query returns it.
C19_Witness ==
    /\ pc = "except"
    /\ last_error = "KeyError"
    /\ last_checked_id # None
    /\ \E k \in 1..Len(batch) :
          /\ batch[k].name = NoStr
          /\ batch[k]._id > last_checked_id
          /\ notified[batch[k]._id] = 0
          /\ batch[k]._id \in IdsOf(fetch_new_forms(collection, last_checked_id))

====
